---- MODULE Spec2Model ----
(***************************************************************************)
(* Model of extract_last_frame.py: the command-line entry point main, the  *)
(* pipeline extract_last_frame, the opener open_video_chinese_path and the *)
(* writer save_image_chinese_path.  The decode library (cv2), the alias    *)
(* path call (GetShortPathNameW) and the filesystem are the environment:   *)
(* every call the code makes to them is a step whose outcome is chosen     *)
(* among the outcomes the call can have.                                   *)
(***************************************************************************)
EXTENDS Integers, Sequences, FiniteSets, TLC

\* ------------------------------------------------------------- bounds
\* Largest number of decodable frames of a modelled stream.
MaxFrames == 2

\* Number of times the program is run on the same video and destination.
MaxRuns == 2

\* ------------------------------------------------------------- inputs
VARIABLES
    argv,          \* [argc, out]: len(sys.argv) and sys.argv[2] when present
    video,         \* the file at sys.argv[1] (fixed over the runs)
    file,          \* the file at the output path
    file0,         \* the file at the output path when the current run began
    run,           \* which run of the program this is
    prevScan       \* frames the sequential scans of the earlier runs ended with

\* ------------------------------------------------------ program state
VARIABLES
    pc,            \* position in the program
    cap,           \* the VideoCapture held in cap: none/unopened/open/released
    opens,         \* open attempts made by the opener, with their outcome
    calls,         \* library and filesystem calls made by this run, in order
    total_frames,  \* extract_last_frame: total_frames
    pos,           \* cursor of the handle (CAP_PROP_POS_FRAMES)
    valid,         \* whether the cursor designates a position reads work from
    frame,         \* extract_last_frame: frame (0: None)
    last_frame,    \* extract_last_frame: last_frame (0: None)
    scanned,       \* whether the sequential scan was entered
    output_path,   \* extract_last_frame: output_path
    direct,        \* outcome of cv2.imwrite: none/true/false/raise
    encoded,       \* outcome of cv2.imencode: [state, fmt, frame]
    success,       \* result of save_image_chinese_path: none/true/false
    error,         \* exception in flight or raised by extract_last_frame
    handler,       \* except clause of main that ran
    printed,       \* whether main printed the saved path
    exitCode       \* process exit code (-1: still running)

inputs == <<argv, video, file, file0, run, prevScan>>
locals == <<pc, cap, opens, calls, total_frames, pos, valid, frame, last_frame,
            scanned, output_path, direct, encoded, success, error, handler,
            printed, exitCode>>
vars == <<inputs, locals>>

\* ------------------------------------------------------------ helpers
None == 0

\* Path(output_path).suffix of the modelled output paths.
Suffixes == {"", ".png", ".jpg", ".JPG", ".xyz"}

\* str.lower() on a suffix.
Lower(s) == CASE s = ".JPG" -> ".jpg"
              [] OTHER -> s

\* The image format the library's encoder lookup finds for an extension
\* (the lookup ignores case); "" when it knows no encoder for it.
LibFormat(ext) == CASE Lower(ext) = ".png" -> "png"
                    [] Lower(ext) = ".jpg" -> "jpg"
                    [] OTHER -> ""

NonePath == [set |-> FALSE, ascii |-> TRUE, suffix |-> ""]
Paths == [set : {TRUE}, ascii : BOOLEAN, suffix : Suffixes]

\* f"{video_name}_last_frame.png" in the video's directory.
DefaultOutputPath(v) == [set |-> TRUE, ascii |-> v.ascii, suffix |-> ".png"]

\* int(x) of a float given in halves: truncation toward zero.
IntOfHalves(h) == IF h >= 0 THEN h \div 2 ELSE -((-h) \div 2)

\* Values cap.get(CAP_PROP_FRAME_COUNT) can report, in halves.
CountHalves == (-3) .. (2 * (MaxFrames + 1))

Videos ==
    [exists : {TRUE}, ascii : BOOLEAN, nFrames : 0 .. MaxFrames,
     countKind : {"finite"}, countHalves : CountHalves, seekOK : BOOLEAN]
    \cup
    [exists : {TRUE}, ascii : BOOLEAN, nFrames : 0 .. MaxFrames,
     countKind : {"nan", "inf"}, countHalves : {0}, seekOK : {TRUE}]
    \cup
    [exists : {FALSE}, ascii : BOOLEAN, nFrames : {0},
     countKind : {"finite"}, countHalves : {0}, seekOK : {TRUE}]

NoVideo == [exists |-> FALSE, ascii |-> TRUE, nFrames |-> 0,
            countKind |-> "finite", countHalves |-> 0, seekOK |-> TRUE]

Absent == [kind |-> "absent", fmt |-> "", frame |-> None]
OldFile == [kind |-> "old", fmt |-> "", frame |-> None]
EmptyFile == [kind |-> "empty", fmt |-> "", frame |-> None]
PartialFile(f) == [kind |-> "partial", fmt |-> f.fmt, frame |-> f.frame]
ImageFile(fmt, fr) == [kind |-> "image", fmt |-> fmt, frame |-> fr]

NotEncoded == [state |-> "none", fmt |-> "", frame |-> None]

\* Exception class of each error the program raises.
ExcClass(e) == CASE e = "NotFoundError" -> "FileNotFoundError"
                 [] e \in {"OpenError", "ReadError", "WriteError", "NaNError"}
                      -> "ValueError"
                 [] e = "OverflowError" -> "OverflowError"
                 [] OTHER -> "none"

\* cap.read(): whether it yields a frame, and the frame it yields.
ReadRet == valid /\ pos < video.nFrames
ReadFrame == IF ReadRet THEN pos + 1 ELSE None

\* The last frame a sequential read from position 0 yields (0: none).
LastDecodable(v) == v.nFrames

\* State of the locals when a run starts.
Fresh ==
    /\ pc = "main"
    /\ cap = "none"
    /\ opens = <<>>
    /\ calls = <<>>
    /\ total_frames = 0
    /\ pos = 0
    /\ valid = TRUE
    /\ frame = None
    /\ last_frame = None
    /\ scanned = FALSE
    /\ output_path = NonePath
    /\ direct = "none"
    /\ encoded = NotEncoded
    /\ success = "none"
    /\ error = "none"
    /\ handler = "none"
    /\ printed = FALSE
    /\ exitCode = -1

Init ==
    /\ argv \in [argc : {1}, out : {NonePath}]
                \cup [argc : {2}, out : {NonePath}]
                \cup [argc : {3}, out : Paths]
    /\ video \in IF argv.argc = 1 THEN {NoVideo} ELSE Videos
    /\ file \in {Absent, OldFile}
    /\ file0 = file
    /\ run = 1
    /\ prevScan = <<>>
    /\ Fresh


\* ---------------------------------------------------------------- main
\* len(sys.argv) < 2: usage text, sys.exit(1).
MainUsage ==
    /\ pc = "main"
    /\ argv.argc < 2
    /\ exitCode' = 1
    /\ pc' = "exit"
    /\ UNCHANGED <<inputs, cap, opens, calls, total_frames, pos, valid, frame,
                   last_frame, scanned, output_path, direct, encoded, success,
                   error, handler, printed>>

\* main calls extract_last_frame(video_path, output_path).
MainCall ==
    /\ pc = "main"
    /\ argv.argc >= 2
    /\ output_path' = IF argv.argc > 2 THEN argv.out ELSE NonePath
    /\ pc' = "check_exists"
    /\ UNCHANGED <<inputs, cap, opens, calls, total_frames, pos, valid, frame,
                   last_frame, scanned, direct, encoded, success, error,
                   handler, printed, exitCode>>

\* ------------------------------------------------- extract_last_frame
\* Faulty variant: the existence check is dropped.
CheckExistsDropped ==
    /\ pc = "check_exists"
    /\ pc' = "open_default"
    /\ UNCHANGED <<inputs, cap, opens, calls, total_frames, pos, valid, frame,
                   last_frame, scanned, output_path, direct, encoded, success,
                   error, handler, printed, exitCode>>

\* if not os.path.exists(video_path): raise FileNotFoundError
CheckExists ==
    /\ pc = "check_exists"
    /\ IF video.exists
         THEN pc' = "open_default" /\ error' = error
         ELSE pc' = "main_except" /\ error' = "NotFoundError"
    /\ UNCHANGED <<inputs, cap, opens, calls, total_frames, pos, valid, frame,
                   last_frame, scanned, output_path, direct, encoded, success,
                   handler, printed, exitCode>>

\* -------------------------------------------- open_video_chinese_path
\* One cv2.VideoCapture(...) by strategy s with outcome ok, then to pc next.
Attempt(s, ok, next) ==
    /\ opens' = Append(opens, [strategy |-> s, opened |-> ok])
    /\ calls' = Append(calls, "open")
    /\ cap' = IF ok THEN "open" ELSE "unopened"
    /\ pc' = IF ok THEN "check_opened" ELSE next

\* Faulty variant: the default backend's handle is not returned when it opened.
OpenDefaultFallsThrough ==
    /\ pc = "open_default"
    /\ \E ok \in BOOLEAN :
          /\ opens' = Append(opens, [strategy |-> "default", opened |-> ok])
          /\ calls' = Append(calls, "open")
          /\ cap' = IF ok THEN "open" ELSE "unopened"
          /\ pc' = "open_ffmpeg"
    /\ UNCHANGED <<inputs, total_frames, pos, valid, frame, last_frame,
                   scanned, output_path, direct, encoded, success, error,
                   handler, printed, exitCode>>

\* cap = cv2.VideoCapture(video_path); if cap.isOpened(): return cap
OpenDefault ==
    /\ pc = "open_default"
    /\ \E ok \in BOOLEAN : Attempt("default", ok, "open_ffmpeg")
    /\ UNCHANGED <<inputs, total_frames, pos, valid, frame, last_frame,
                   scanned, output_path, direct, encoded, success, error,
                   handler, printed, exitCode>>

\* cap = cv2.VideoCapture(video_path, cv2.CAP_FFMPEG); if opened: return cap
OpenFFmpeg ==
    /\ pc = "open_ffmpeg"
    /\ \E ok \in BOOLEAN : Attempt("ffmpeg", ok, "open_short")
    /\ UNCHANGED <<inputs, total_frames, pos, valid, frame, last_frame,
                   scanned, output_path, direct, encoded, success, error,
                   handler, printed, exitCode>>

\* Outcomes of the try block around GetShortPathNameW:
\*   no_windll     ctypes.windll is missing (AttributeError), caught
\*   zero_buffer   buffer_size is 0, nothing is attempted
\*   raises        another exception before the open, caught
\*   opened, not_opened   cv2.VideoCapture(short_path) was attempted
ShortPathOutcomes == {"no_windll", "zero_buffer", "raises", "opened", "not_opened"}

\* the try ... except Exception: pass block, then return cap
OpenShortPath ==
    /\ pc = "open_short"
    /\ \E o \in ShortPathOutcomes :
          IF o \in {"opened", "not_opened"}
            THEN Attempt("alias", o = "opened", "check_opened")
            ELSE /\ pc' = "check_opened"
                 /\ UNCHANGED <<opens, calls, cap>>
    /\ UNCHANGED <<inputs, total_frames, pos, valid, frame, last_frame,
                   scanned, output_path, direct, encoded, success, error,
                   handler, printed, exitCode>>

\* if not cap.isOpened(): raise ValueError  (outside the try/finally)
CheckOpened ==
    /\ pc = "check_opened"
    /\ IF cap = "open"
         THEN pc' = "get_count" /\ error' = error
         ELSE pc' = "main_except" /\ error' = "OpenError"
    /\ UNCHANGED <<inputs, cap, opens, calls, total_frames, pos, valid, frame,
                   last_frame, scanned, output_path, direct, encoded, success,
                   handler, printed, exitCode>>

\* Faulty variant: only a negative frame count is refused.
EmptyVideoStrict(n) == n < 0

\* if total_frames <= 0: raise ValueError
EmptyVideo(n) == n <= 0

\* total_frames = int(cap.get(cv2.CAP_PROP_FRAME_COUNT)) and the check on it
GetFrameCount ==
    /\ pc = "get_count"
    /\ calls' = Append(calls, "get")
    /\ CASE video.countKind = "nan" ->
              /\ error' = "NaNError"
              /\ pc' = "finally"
              /\ UNCHANGED total_frames
         [] video.countKind = "inf" ->
              /\ error' = "OverflowError"
              /\ pc' = "finally"
              /\ UNCHANGED total_frames
         [] OTHER ->
              /\ total_frames' = IntOfHalves(video.countHalves)
              /\ IF EmptyVideo(total_frames')
                   THEN error' = "ReadError" /\ pc' = "finally"
                   ELSE error' = error /\ pc' = "seek_last"
    /\ UNCHANGED <<inputs, cap, opens, pos, valid, frame, last_frame, scanned,
                   output_path, direct, encoded, success, handler, printed,
                   exitCode>>

\* cap.set(cv2.CAP_PROP_POS_FRAMES, total_frames - 1)
SeekLast ==
    /\ pc = "seek_last"
    /\ calls' = Append(calls, "seek")
    /\ pos' = total_frames - 1
    /\ valid' = (video.seekOK \/ pos' = 0)
    /\ pc' = "read_last"
    /\ UNCHANGED <<inputs, cap, opens, total_frames, frame, last_frame,
                   scanned, output_path, direct, encoded, success, error,
                   handler, printed, exitCode>>

\* ret, frame = cap.read(); if not ret or frame is None: (scan) else (save)
ReadLast ==
    /\ pc = "read_last"
    /\ calls' = Append(calls, "read")
    /\ frame' = ReadFrame
    /\ pos' = IF ReadRet THEN pos + 1 ELSE pos
    /\ pc' = IF ReadRet THEN "resolve_output" ELSE "scan_reset"
    /\ UNCHANGED <<inputs, cap, opens, total_frames, valid, last_frame,
                   scanned, output_path, direct, encoded, success, error,
                   handler, printed, exitCode>>

\* cap.set(cv2.CAP_PROP_POS_FRAMES, 0); last_frame = None
ScanReset ==
    /\ pc = "scan_reset"
    /\ calls' = Append(calls, "seek")
    /\ pos' = 0
    /\ valid' = TRUE
    /\ last_frame' = None
    /\ scanned' = TRUE
    /\ pc' = "scan_read"
    /\ UNCHANGED <<inputs, cap, opens, total_frames, frame, output_path,
                   direct, encoded, success, error, handler, printed, exitCode>>

\* Faulty variant: the holder keeps the first frame read instead of the latest.
HoldFirst(held, current) == IF held = None THEN current ELSE held

\* last_frame = current_frame
Hold(held, current) == current

\* One iteration of the while True loop, and what follows the loop when the
\* read yields nothing.
ScanRead ==
    /\ pc = "scan_read"
    /\ calls' = Append(calls, "read")
    /\ IF ReadRet
         THEN /\ last_frame' = Hold(last_frame, ReadFrame)
              /\ pos' = pos + 1
              /\ pc' = "scan_read"
              /\ UNCHANGED <<frame, error>>
         ELSE /\ UNCHANGED <<last_frame, pos>>
              /\ IF last_frame = None
                   THEN error' = "ReadError" /\ pc' = "finally" /\ frame' = frame
                   ELSE error' = error /\ pc' = "resolve_output"
                        /\ frame' = last_frame
    /\ UNCHANGED <<inputs, cap, opens, total_frames, valid, scanned,
                   output_path, direct, encoded, success, handler, printed,
                   exitCode>>

\* if output_path is None: output_path = <video stem>_last_frame.png
ResolveOutput ==
    /\ pc = "resolve_output"
    /\ output_path' = IF output_path.set THEN output_path
                      ELSE DefaultOutputPath(video)
    /\ pc' = "imwrite"
    /\ UNCHANGED <<inputs, cap, opens, calls, total_frames, pos, valid, frame,
                   last_frame, scanned, direct, encoded, success, error,
                   handler, printed, exitCode>>

\* --------------------------------------------- save_image_chinese_path
\* Outcomes of cv2.imwrite: it can succeed only for an extension the
\* library has an encoder for; otherwise it returns False or raises.
DirectOutcomes(path) ==
    IF LibFormat(path.suffix) # "" THEN {"true", "false", "raise"}
    ELSE {"false", "raise"}

\* Faulty variant: the fallback is entered whatever the direct write said.
AfterDirectAlways(o) == "imencode"

\* if success: return True; otherwise fall to the imencode path
AfterDirect(o) == IF o = "true" THEN "check_saved" ELSE "imencode"

\* try: success = cv2.imwrite(output_path, image) ... except Exception: pass
DirectWrite ==
    /\ pc = "imwrite"
    /\ calls' = Append(calls, "imwrite")
    /\ \E o \in DirectOutcomes(output_path) :
          /\ direct' = o
          /\ file' = IF o = "true"
                       THEN ImageFile(LibFormat(output_path.suffix), frame)
                       ELSE file
          /\ success' = IF AfterDirect(o) = "check_saved" THEN "true" ELSE success
          /\ pc' = AfterDirect(o)
    /\ UNCHANGED <<argv, video, file0, run, prevScan, cap, opens,
                   total_frames, pos, valid, frame, last_frame, scanned,
                   output_path, encoded, error, handler, printed, exitCode>>

\* Faulty variant: a path without extension is encoded as JPEG.
EncodeExtDefaultJpg(path) ==
    IF Lower(path.suffix) = "" THEN ".jpg" ELSE Lower(path.suffix)

\* ext = Path(output_path).suffix.lower(); if not ext: ext = '.png'
EncodeExt(path) ==
    IF Lower(path.suffix) = "" THEN ".png" ELSE Lower(path.suffix)

\* success, encoded = cv2.imencode(ext, image); if not success: return False
\* (an extension without encoder makes imencode raise: return False)
Encode ==
    /\ pc = "imencode"
    /\ calls' = Append(calls, "imencode")
    /\ LET fmt == LibFormat(EncodeExt(output_path)) IN
         IF fmt = ""
           THEN /\ encoded' = [state |-> "raise", fmt |-> "", frame |-> None]
                /\ success' = "false"
                /\ pc' = "check_saved"
           ELSE \E ok \in BOOLEAN :
                  IF ok
                    THEN /\ encoded' = [state |-> "ok", fmt |-> fmt,
                                        frame |-> frame]
                         /\ success' = success
                         /\ pc' = "raw_open"
                    ELSE /\ encoded' = [state |-> "false", fmt |-> fmt,
                                        frame |-> None]
                         /\ success' = "false"
                         /\ pc' = "check_saved"
    /\ UNCHANGED <<inputs, cap, opens, total_frames, pos, valid, frame,
                   last_frame, scanned, output_path, direct, error, handler,
                   printed, exitCode>>

\* with open(output_path, 'wb') as f: mode 'wb' truncates the destination
\* when the open succeeds; a failed open raises and leaves it alone.
RawOpen ==
    /\ pc = "raw_open"
    /\ calls' = Append(calls, "open_wb")
    /\ \E ok \in BOOLEAN :
          IF ok
            THEN file' = EmptyFile /\ success' = success /\ pc' = "raw_write"
            ELSE file' = file /\ success' = "false" /\ pc' = "check_saved"
    /\ UNCHANGED <<argv, video, file0, run, prevScan, cap, opens,
                   total_frames, pos, valid, frame, last_frame, scanned,
                   output_path, direct, encoded, error, handler, printed,
                   exitCode>>

\* f.write(encoded.tobytes()); return True -- or the write raises (disk
\* full, I/O error) with nothing or a part of the buffer on disk, the with
\* block closes the file and except Exception returns False.
RawWrite ==
    /\ pc = "raw_write"
    /\ calls' = Append(calls, "write")
    /\ \E o \in {"ok", "fail_empty", "fail_partial"} :
          /\ file' = CASE o = "ok" -> ImageFile(encoded.fmt, encoded.frame)
                       [] o = "fail_empty" -> EmptyFile
                       [] OTHER -> PartialFile(encoded)
          /\ success' = IF o = "ok" THEN "true" ELSE "false"
    /\ pc' = "check_saved"
    /\ UNCHANGED <<argv, video, file0, run, prevScan, cap, opens,
                   total_frames, pos, valid, frame, last_frame, scanned,
                   output_path, direct, encoded, error, handler, printed,
                   exitCode>>

\* ------------------------------------------ extract_last_frame, the end
\* if not success: raise ValueError; return output_path
CheckSaved ==
    /\ pc = "check_saved"
    /\ error' = IF success = "true" THEN error ELSE "WriteError"
    /\ pc' = "finally"
    /\ UNCHANGED <<inputs, cap, opens, calls, total_frames, pos, valid, frame,
                   last_frame, scanned, output_path, direct, encoded, success,
                   handler, printed, exitCode>>

\* Faulty variant: the handle is released on the normal return only.
ReleasedOnReturnOnly(e) == e = "none"

\* finally: the release runs whatever is in flight
Released(e) == TRUE

\* finally: cap.release(), then the return or the exception goes on to main
Finally ==
    /\ pc = "finally"
    /\ IF Released(error)
         THEN cap' = "released" /\ calls' = Append(calls, "release")
         ELSE UNCHANGED <<cap, calls>>
    /\ pc' = IF error = "none" THEN "main_print" ELSE "main_except"
    /\ UNCHANGED <<inputs, opens, total_frames, pos, valid, frame, last_frame,
                   scanned, output_path, direct, encoded, success, error,
                   handler, printed, exitCode>>

\* ------------------------------------------------------- main, the end
\* print(saved_path); main returns and the process exits with code 0
MainPrint ==
    /\ pc = "main_print"
    /\ printed' = TRUE
    /\ exitCode' = 0
    /\ pc' = "exit"
    /\ UNCHANGED <<inputs, cap, opens, calls, total_frames, pos, valid, frame,
                   last_frame, scanned, output_path, direct, encoded, success,
                   error, handler>>

\* The except clause of main that catches an exception of class c.
HandlerOf(c) == CASE c = "FileNotFoundError" -> "FileNotFoundError"
                  [] c = "ValueError" -> "ValueError"
                  [] OTHER -> "Exception"

\* Faulty variant: the last except clause forgets sys.exit(1).
ExitOfLenient(h) == IF h = "Exception" THEN 0 ELSE 1

\* every except clause ends with sys.exit(1)
ExitOf(h) == 1

\* except FileNotFoundError / ValueError / Exception: print, sys.exit(1)
MainExcept ==
    /\ pc = "main_except"
    /\ handler' = HandlerOf(ExcClass(error))
    /\ exitCode' = ExitOf(handler')
    /\ pc' = "exit"
    /\ UNCHANGED <<inputs, cap, opens, calls, total_frames, pos, valid, frame,
                   last_frame, scanned, output_path, direct, encoded, success,
                   error, printed>>

\* The program is run again with the same arguments on the same files.
Reinvoke ==
    /\ pc = "exit"
    /\ run < MaxRuns
    /\ run' = run + 1
    /\ prevScan' = IF scanned THEN Append(prevScan, frame) ELSE prevScan
    /\ file0' = file
    /\ pc' = "main"
    /\ cap' = "none"
    /\ opens' = <<>>
    /\ calls' = <<>>
    /\ total_frames' = 0
    /\ pos' = 0
    /\ valid' = TRUE
    /\ frame' = None
    /\ last_frame' = None
    /\ scanned' = FALSE
    /\ output_path' = NonePath
    /\ direct' = "none"
    /\ encoded' = NotEncoded
    /\ success' = "none"
    /\ error' = "none"
    /\ handler' = "none"
    /\ printed' = FALSE
    /\ exitCode' = -1
    /\ UNCHANGED <<argv, video, file>>

Next ==
    \/ MainUsage
    \/ MainCall
    \/ CheckExists
    \/ OpenDefault
    \/ OpenFFmpeg
    \/ OpenShortPath
    \/ CheckOpened
    \/ GetFrameCount
    \/ SeekLast
    \/ ReadLast
    \/ ScanReset
    \/ ScanRead
    \/ ResolveOutput
    \/ DirectWrite
    \/ Encode
    \/ RawOpen
    \/ RawWrite
    \/ CheckSaved
    \/ Finally
    \/ MainPrint
    \/ MainExcept
    \/ Reinvoke

Spec == Init /\ [][Next]_vars

TypeOK ==
    /\ pc \in {"main", "check_exists", "open_default", "open_ffmpeg",
               "open_short", "check_opened", "get_count", "seek_last",
               "read_last", "scan_reset", "scan_read", "resolve_output",
               "imwrite", "imencode", "raw_open", "raw_write", "check_saved",
               "finally", "main_print", "main_except", "exit"}
    /\ cap \in {"none", "unopened", "open", "released"}
    /\ frame \in 0 .. MaxFrames
    /\ last_frame \in 0 .. MaxFrames
    /\ exitCode \in {-1, 0, 1}
    /\ run \in 1 .. MaxRuns
    /\ file.kind \in {"absent", "old", "empty", "partial", "image"}

\* ============================================================= claims
InCalls(c) == \E i \in 1 .. Len(calls) : calls[i] = c

\* extract_last_frame has ended (returned or raised into main).
Ended == pc \in {"main_print", "main_except", "exit"} /\ argv.argc >= 2

\* The opener has returned and the caller has looked at the handle.
PastOpen == pc \notin {"main", "check_exists", "open_default", "open_ffmpeg",
                       "open_short", "check_opened"}

\* The frame locator is done: a frame was handed on, or it failed.
PastScan == pc \notin {"main", "check_exists", "open_default", "open_ffmpeg",
                       "open_short", "check_opened", "get_count", "seek_last",
                       "read_last", "scan_reset", "scan_read"}

\* save_image_chinese_path has returned.
WriterReturned == success # "none" /\ pc # "imencode"

\* C1: an invocation on a path that does not exist fails with the not-found
\* error, and no library call (open, frame count, seek, read, encode,
\* write) is made at any point of it.
C1_NotFoundBeforeDecode ==
    (argv.argc >= 2 /\ ~video.exists) =>
        /\ calls = <<>>
        /\ opens = <<>>
        /\ cap = "none"
        /\ file = file0
        /\ pc \in {"main", "check_exists", "main_except", "exit"}
        /\ pc \in {"main_except", "exit"} => error = "NotFoundError"
        /\ pc = "exit" => handler = "FileNotFoundError"

C1_Witness ==
    /\ argv.argc >= 2
    /\ ~video.exists
    /\ pc = "exit"
    /\ error = "NotFoundError"

\* C2: when extract_last_frame has ended, on whatever path, no handle is
\* left open: a handle the opener opened has been released.
C2_HandleReleased ==
    Ended =>
        /\ cap # "open"
        /\ (\E i \in 1 .. Len(opens) : opens[i].opened) => cap = "released"

C2_Witness ==
    /\ pc = "exit"
    /\ error = "WriteError"
    /\ cap = "released"
    /\ calls[Len(calls)] = "release"

\* C3: when the opened video reports a frame count of 0 or less, the
\* invocation fails with the read error before any seek or read, and the
\* destination is neither created nor written.
C3_EmptyVideoFails ==
    (video.countKind = "finite" /\ IntOfHalves(video.countHalves) <= 0
       /\ InCalls("get")) =>
        /\ error = "ReadError"
        /\ pc \in {"finally", "main_except", "exit"}
        /\ ~InCalls("seek") /\ ~InCalls("read")
        /\ ~InCalls("imwrite") /\ ~InCalls("imencode")
        /\ ~InCalls("open_wb") /\ ~InCalls("write")
        /\ file = file0
        /\ pc = "exit" => exitCode = 1

C3_Witness ==
    /\ video.countKind = "finite"
    /\ video.countHalves = 0
    /\ video.nFrames > 0
    /\ pc = "exit"
    /\ error = "ReadError"
    /\ file0 = Absent

\* C4: the frame handed to the image writer is the last decodable frame of
\* the stream, by the seek path or by the scan.
C4_HandsLastDecodable ==
    pc = "imwrite" => frame = LastDecodable(video)

\* C5: once the read after the seek to N-1 has failed, the cursor is put
\* back to 0 and frames are read in sequence, each read overwriting the held
\* frame; the frame used is the last one of that scan, an empty scan fails
\* with the read error and writes nothing, and a scan of the same stream in a
\* later run ends with the same frame.
C5_ScanYieldsLast ==
    /\ pc = "scan_read" => (scanned /\ valid /\ last_frame = pos
                            /\ pos <= video.nFrames)
    /\ (InCalls("read") /\ pc \notin {"read_last", "scan_reset"}) =>
          (scanned <=> ~( /\ video.seekOK \/ total_frames = 1
                          /\ total_frames - 1 < video.nFrames ))
    /\ (scanned /\ PastScan) =>
          /\ pos = video.nFrames
          /\ frame = LastDecodable(video)
          /\ \A i \in 1 .. Len(prevScan) : prevScan[i] = frame
          /\ IF video.nFrames = 0
               THEN /\ error = "ReadError"
                    /\ ~InCalls("imwrite") /\ ~InCalls("imencode")
                    /\ ~InCalls("open_wb")
                    /\ file = file0
               ELSE /\ frame # None
                    /\ last_frame = frame
                    /\ error \in {"none", "WriteError"}

C5_Witness ==
    /\ scanned
    /\ pc = "imwrite"
    /\ video.nFrames = MaxFrames
    /\ frame = MaxFrames
    /\ prevScan = <<MaxFrames>>

\* C6: a failed image writer leaves the destination absent or with its
\* previous content.
C6_NoPartialFile ==
    success = "false" => file = file0

\* The format the code is to use for a path (C7 as amended).
ExpectedFormat(path) ==
    IF path.suffix = "" THEN "png" ELSE LibFormat(path.suffix)

\* C7, as the spec states it: PNG is used when the extension is absent and
\* when it is not a recognized format, and the extension never makes the
\* writer fail.
C7_PngWhenUnrecognized ==
    (encoded.state # "none" /\ LibFormat(output_path.suffix) = "") =>
        /\ encoded.state # "raise"
        /\ encoded.state = "ok" => encoded.fmt = "png"

\* C7, amended: the format is that of the output path's extension, PNG when
\* the path has no extension; an extension that is not a recognized format
\* makes both the direct write and the encode fail, so the writer fails.
C7_FormatFromExtension ==
    /\ encoded.state = "ok" =>
          /\ encoded.fmt = ExpectedFormat(output_path)
          /\ encoded.fmt # ""
    /\ (output_path.set /\ output_path.suffix = "") =>
          /\ direct # "true"
          /\ encoded.state # "raise"
    /\ (output_path.set /\ ExpectedFormat(output_path) = ""
          /\ direct # "none") =>
          /\ direct # "true"
          /\ encoded.state \in {"none", "raise"}
          /\ success # "true"
          /\ WriterReturned => success = "false"
          /\ Ended => error = "WriteError"
    /\ success = "true" => file = ImageFile(ExpectedFormat(output_path), frame)

C7_Witness ==
    /\ output_path.set
    /\ output_path.suffix = ""
    /\ success = "true"
    /\ file = ImageFile("png", frame)
    /\ pc = "exit"

\* C8: the process exits with code 0 exactly when extract_last_frame
\* returned a path, which main printed, and with code 1 on every failure.
C8_ExitCode ==
    /\ pc # "exit" => exitCode = -1
    /\ pc = "exit" =>
          /\ exitCode \in {0, 1}
          /\ exitCode = 0 <=> (argv.argc >= 2 /\ error = "none"
                               /\ success = "true" /\ printed)
          /\ error # "none" => (exitCode = 1 /\ ~printed /\ handler # "none")

C8_Witness ==
    /\ pc = "exit"
    /\ error = "OverflowError"
    /\ handler = "Exception"
    /\ exitCode = 1

\* The opener's strategies, in the order of the code.
StrategyOrder == <<"default", "ffmpeg", "alias">>

\* C9: the opener tries default backend, requested backend, alias path in
\* that order; a strategy is tried only after all earlier ones failed and
\* none after a success; a missing or failing alias mechanism is skipped;
\* the invocation fails with the open error exactly when no attempt opened.
C9_OpenerOrder ==
    /\ Len(opens) <= 3
    /\ \A i \in 1 .. Len(opens) : opens[i].strategy = StrategyOrder[i]
    /\ \A i \in 1 .. Len(opens) - 1 : ~opens[i].opened
    /\ pc \in {"check_opened", "get_count"} =>
          (cap = "open" <=> (opens # <<>> /\ opens[Len(opens)].opened))
    /\ (PastOpen /\ video.exists /\ argv.argc >= 2) =>
          /\ error = "OpenError" <=> (\A i \in 1 .. Len(opens) : ~opens[i].opened)
          /\ error = "OpenError" => (Len(opens) >= 2 /\ pc \in {"main_except", "exit"})
          /\ Len(opens) >= 1

C9_Witness ==
    /\ Len(opens) = 3
    /\ opens[3].opened
    /\ pc = "get_count"

\* C10: the encode + raw-write fallback runs exactly when the direct write
\* did not signal success; it encodes in the format of the path's extension
\* and writes the whole buffer, and the writer reports success whenever the
\* encode and the raw write both succeed.
C10_FallbackWrite ==
    /\ (direct # "none" /\ pc # "imencode") =>
          (InCalls("imencode") <=> direct \in {"false", "raise"})
    /\ InCalls("imencode") => direct \in {"false", "raise"}
    /\ (encoded.state = "ok" /\ output_path.suffix \in {".jpg", ".JPG"}) =>
          encoded.fmt = "jpg"
    /\ (encoded.state = "ok" /\ output_path.suffix = ".png") =>
          encoded.fmt = "png"
    /\ encoded.state = "ok" => encoded.frame = frame
    /\ (direct \in {"false", "raise"} /\ WriterReturned) =>
          (success = "true" <=>
              /\ encoded.state = "ok"
              /\ InCalls("write")
              /\ file = ImageFile(encoded.fmt, frame))

C10_Witness ==
    /\ ~output_path.ascii
    /\ output_path.suffix = ".jpg"
    /\ direct = "raise"
    /\ success = "true"
    /\ file = ImageFile("jpg", frame)
    /\ frame # None
    /\ pc = "exit"
====
